---- MODULE Spec2Model ----
(***************************************************************************)
(* Model of db01_setup.py: main() ensures the data folder, opens a SQLite *)
(* connection, runs three SQL script files through execute_sql_file and    *)
(* closes the connection in a finally block.  The database engine is       *)
(* modelled at the level of statements: DROP TABLE IF EXISTS, CREATE       *)
(* TABLE, INSERT, BEGIN and a statement the engine rejects.                *)
(***************************************************************************)
EXTENDS Integers, Sequences, FiniteSets, TLC

\* ---- bounds ----
MaxSeedLen == 2
MaxRuns == 2

\* ---- file names used by main (lines 56-58) ----
DropFile == "01_drop_tables.sql"
CreateFile == "02_create_tables.sql"
InsertFile == "03_insert_records.sql"

ScriptOrderInsertFirst == <<InsertFile, DropFile, CreateFile>>
ScriptOrder == <<DropFile, CreateFile, InsertFile>>

Tables == {"authors", "books"}
AuthorIds == {"A1", "A2"}
BookIds == {"B1"}
NULL == "NULL"

\* ---- rows ----
AuthorRow(a) == [author_id |-> a]
BookRow(b, a) == [book_id |-> b, author_id |-> a]

\* ---- statements ----
DropStmt(t) == [op |-> "drop", t |-> t, key |-> NULL, ref |-> NULL]
CreateStmt(t) == [op |-> "create", t |-> t, key |-> NULL, ref |-> NULL]
InsertAuthor(a) == [op |-> "insert", t |-> "authors", key |-> a, ref |-> NULL]
InsertBook(b, a) == [op |-> "insert", t |-> "books", key |-> b, ref |-> a]
BeginStmt == [op |-> "begin", t |-> NULL, key |-> NULL, ref |-> NULL]
Malformed == [op |-> "malformed", t |-> NULL, key |-> NULL, ref |-> NULL]

\* ---- script file contents ----
FileOf(stmts) == [present |-> TRUE, stmts |-> stmts]
MissingFile == [present |-> FALSE, stmts |-> <<>>]

\* lines 67-68
DropTablesScript == <<DropStmt("books"), DropStmt("authors")>>
\* lines 74-79 and 86-92, the two CREATE TABLE statements
CreateTablesScript == <<CreateStmt("authors"), CreateStmt("books")>>
\* lines 70-92 as they stand: "try CREATE TABLE authors" and "#Create ..."
CreateTablesScriptAsWritten == <<Malformed, Malformed>>
\* lines 74-92 without the stray "try": authors is created, "#" is rejected
CreateTablesScriptHashComment == <<CreateStmt("authors"), Malformed>>

SeedStmts ==
    {InsertAuthor(a) : a \in AuthorIds}
      \cup {InsertBook(b, a) : b \in BookIds, a \in AuthorIds \cup {NULL}}
      \cup {BeginStmt, Malformed}

SeqsUpTo(S, n) == UNION {[1..k -> S] : k \in 0..n}

DropFileContents == {MissingFile, FileOf(DropTablesScript)}
CreateFileContents ==
    {MissingFile, FileOf(CreateTablesScript), FileOf(CreateTablesScriptAsWritten),
     FileOf(CreateTablesScriptHashComment)}
InsertFileContents == {MissingFile} \cup {FileOf(s) : s \in SeqsUpTo(SeedStmts, MaxSeedLen)}

\* ---- database contents ----
NoTable == [exists |-> FALSE, rows |-> {}]
TableWith(rows) == [exists |-> TRUE, rows |-> rows]
EmptyDb == [authors |-> NoTable, books |-> NoTable]
PriorDbs ==
    {EmptyDb,
     [authors |-> TableWith({}), books |-> TableWith({})],
     [authors |-> TableWith({AuthorRow("A2")}), books |-> TableWith({})],
     [authors |-> TableWith({AuthorRow("A1"), AuthorRow("A2")}),
      books |-> TableWith({BookRow("B1", "A2")})]}

\* ---- engine: one statement of executescript (line 29) ----
Keys(tbl, t) ==
    IF t = "authors" THEN {r.author_id : r \in tbl.rows} ELSE {r.book_id : r \in tbl.rows}

RowOf(s) == IF s.t = "authors" THEN AuthorRow(s.key) ELSE BookRow(s.key, s.ref)

ForeignKeyOk(db, s) ==
    \/ s.t # "books"
    \/ s.ref = NULL
    \/ db.authors.exists /\ s.ref \in Keys(db.authors, "authors")

Fail(st) == [st EXCEPT !.ok = FALSE]

ApplyStmt(st, fk, s) ==
    CASE s.op = "drop" ->
           [st EXCEPT !.db = [st.db EXCEPT ![s.t] = NoTable]]
      [] s.op = "create" ->
           IF st.db[s.t].exists THEN Fail(st)
           ELSE [st EXCEPT !.db = [st.db EXCEPT ![s.t] = TableWith({})]]
      [] s.op = "insert" ->
           IF ~st.db[s.t].exists THEN Fail(st)
           ELSE IF s.key \in Keys(st.db[s.t], s.t) THEN Fail(st)
           ELSE IF fk /\ ~ForeignKeyOk(st.db, s) THEN Fail(st)
           ELSE [st EXCEPT !.db =
                    [st.db EXCEPT ![s.t] = TableWith(st.db[s.t].rows \cup {RowOf(s)})]]
      [] s.op = "begin" ->
           IF st.in_txn THEN Fail(st)
           ELSE [st EXCEPT !.in_txn = TRUE, !.snap = st.db]
      [] OTHER -> Fail(st)

RECURSIVE RunStmts(_, _, _)
RunStmts(st, fk, stmts) ==
    IF stmts = <<>> THEN st
    ELSE LET r == ApplyStmt(st, fk, Head(stmts))
         IN  IF r.ok THEN RunStmts(r, fk, Tail(stmts)) ELSE r

executescript(db, fk, stmts) ==
    RunStmts([db |-> db, ok |-> TRUE, in_txn |-> FALSE, snap |-> db], fk, stmts)

\* "with connection" leaving on an exception: rollback of the open transaction
RollbackWholeScript(r, before) == before
Rollback(r, before) == IF r.in_txn THEN r.snap ELSE r.db

\* ---- pathlib mkdir(exist_ok=True) (line 47) ----
MkdirExistNotOk(dir) ==
    IF dir = "absent" THEN {[ok |-> TRUE, dir |-> "dir"], [ok |-> FALSE, dir |-> "absent"]}
    ELSE {[ok |-> FALSE, dir |-> dir]}
Mkdir(dir) ==
    IF dir = "absent" THEN {[ok |-> TRUE, dir |-> "dir"], [ok |-> FALSE, dir |-> "absent"]}
    ELSE IF dir = "dir" THEN {[ok |-> TRUE, dir |-> "dir"]}
    ELSE {[ok |-> FALSE, dir |-> dir]}

\* ---- control flow of main's try block (lines 56-61) ----
AfterExecuteSwallow(i, ok) ==
    IF i < Len(ScriptOrder) THEN [pc |-> "exec", step |-> i + 1]
    ELSE [pc |-> "completed", step |-> i]
AfterExecute(i, ok) ==
    IF ~ok THEN [pc |-> "except", step |-> i]
    ELSE IF i < Len(ScriptOrder) THEN [pc |-> "exec", step |-> i + 1]
    ELSE [pc |-> "completed", step |-> i]

\* the except handler falls into the finally block (lines 61-63)
AfterHandlerNoCleanup == "done"
AfterHandler == "finally"

\* ---- log lines ----
Line(level, msg, arg) == [level |-> level, msg |-> msg, arg |-> arg]

VARIABLES
    pc,            \* position in main
    step,          \* index of the execute_sql_file call in main
    dataDir,       \* DATA_FOLDER on disk: "absent", "dir", or "file"
    db,            \* contents of data/db.sqlite
    foreign_keys,  \* PRAGMA foreign_keys of a new connection (engine default)
    scripts,       \* contents of the three files under sql_create
    connBound,     \* the local name `connection` is bound
    connOpen,      \* the connection is open
    opens,         \* connections opened in this run
    closes,        \* connections closed in this run
    calls,         \* execute_sql_file calls of this run: file and outcome
    log,           \* logger output of this run
    raisedAt,      \* where an exception left main: "none", "mkdir", "finally"
    run,           \* number of the current run of main
    prev           \* outcome of the previous run

vars == <<pc, step, dataDir, db, foreign_keys, scripts, connBound, connOpen,
          opens, closes, calls, log, raisedAt, run, prev>>

NoPrev == [ran |-> FALSE, completed |-> FALSE, db |-> EmptyDb]

Init ==
    /\ pc = "start"
    /\ step = 1
    /\ dataDir \in {"absent", "dir", "file"}
    /\ db \in (IF dataDir = "dir" THEN PriorDbs ELSE {EmptyDb})
    /\ foreign_keys \in BOOLEAN
    /\ \E d \in DropFileContents, c \in CreateFileContents, i \in InsertFileContents :
          scripts = (DropFile :> d) @@ (CreateFile :> c) @@ (InsertFile :> i)
    /\ connBound = FALSE
    /\ connOpen = FALSE
    /\ opens = 0
    /\ closes = 0
    /\ calls = <<>>
    /\ log = <<>>
    /\ raisedAt = "none"
    /\ run = 1
    /\ prev = NoPrev

\* lines 37-44
Start ==
    /\ pc = "start"
    /\ log' = Append(log, Line("info", "Starting database setup...", NULL))
    /\ pc' = "mkdir"
    /\ UNCHANGED <<step, dataDir, db, foreign_keys, scripts, connBound, connOpen,
                   opens, closes, calls, raisedAt, run, prev>>

\* line 47
EnsureDataFolder ==
    /\ pc = "mkdir"
    /\ \E o \in Mkdir(dataDir) :
          /\ dataDir' = o.dir
          /\ pc' = IF o.ok THEN "connect" ELSE "raised"
          /\ raisedAt' = IF o.ok THEN raisedAt ELSE "mkdir"
    /\ UNCHANGED <<step, db, foreign_keys, scripts, connBound, connOpen,
                   opens, closes, calls, log, run, prev>>

\* lines 50-52
Connect ==
    /\ pc = "connect"
    /\ \E ok \in BOOLEAN :
          IF ok
          THEN /\ connBound' = TRUE
               /\ connOpen' = TRUE
               /\ opens' = opens + 1
               /\ log' = Append(log, Line("info", "Connected to database", NULL))
               /\ pc' = "exec"
          ELSE /\ pc' = "except"
               /\ UNCHANGED <<connBound, connOpen, opens, log>>
    /\ UNCHANGED <<step, dataDir, db, foreign_keys, scripts, closes, calls,
                   raisedAt, run, prev>>

\* lines 13-33, called from lines 56-58
ExecuteSqlFile ==
    /\ pc = "exec"
    /\ LET f == ScriptOrder[step]
           file == scripts[f]
           r == executescript(db, foreign_keys, file.stmts)
           executed == Line("info", "Executed", f)
           failed == Line("error", "Failed to execute", f)
       IN  \E commitOk \in BOOLEAN :
             LET ok == file.present /\ r.ok /\ (r.in_txn => commitOk)
                 nxt == AfterExecute(step, ok)
             IN  /\ db' = IF ~file.present THEN db
                          ELSE IF ~r.ok THEN Rollback(r, db)
                          ELSE IF r.in_txn /\ ~commitOk THEN r.snap
                          ELSE r.db
                 /\ log' = IF ~file.present \/ ~r.ok THEN Append(log, failed)
                           ELSE IF ok THEN Append(log, executed)
                           ELSE Append(Append(log, executed), failed)
                 /\ calls' = Append(calls, [file |-> f, ok |-> ok])
                 /\ pc' = nxt.pc
                 /\ step' = nxt.step
    /\ UNCHANGED <<dataDir, foreign_keys, scripts, connBound, connOpen, opens,
                   closes, raisedAt, run, prev>>

\* line 60
LogCompleted ==
    /\ pc = "completed"
    /\ log' = Append(log, Line("info", "Database setup completed successfully.", NULL))
    /\ pc' = "finally"
    /\ UNCHANGED <<step, dataDir, db, foreign_keys, scripts, connBound, connOpen,
                   opens, closes, calls, raisedAt, run, prev>>

\* lines 61-62
HandleException ==
    /\ pc = "except"
    /\ log' = Append(log, Line("error", "Error during database setup", NULL))
    /\ pc' = AfterHandler
    /\ UNCHANGED <<step, dataDir, db, foreign_keys, scripts, connBound, connOpen,
                   opens, closes, calls, raisedAt, run, prev>>

\* lines 63-65
Finally ==
    /\ pc = "finally"
    /\ IF connBound
       THEN /\ connOpen' = FALSE
            /\ closes' = closes + 1
            /\ log' = Append(log, Line("info", "Database connection closed.", NULL))
            /\ pc' = "done"
            /\ UNCHANGED raisedAt
       ELSE \* `connection` was never assigned: UnboundLocalError leaves main
            /\ pc' = "raised"
            /\ raisedAt' = "finally"
            /\ UNCHANGED <<connOpen, closes, log>>
    /\ UNCHANGED <<step, dataDir, db, foreign_keys, scripts, connBound, opens,
                   calls, run, prev>>

Completed ==
    \E i \in 1..Len(log) : log[i].msg = "Database setup completed successfully."

\* lines 93-94: the program is run again on the same files
RunAgain ==
    /\ pc \in {"done", "raised"}
    /\ run < MaxRuns
    /\ run' = run + 1
    /\ prev' = [ran |-> TRUE, completed |-> Completed, db |-> db]
    /\ pc' = "start"
    /\ step' = 1
    /\ connBound' = FALSE
    /\ connOpen' = FALSE
    /\ opens' = 0
    /\ closes' = 0
    /\ calls' = <<>>
    /\ log' = <<>>
    /\ raisedAt' = "none"
    /\ UNCHANGED <<dataDir, db, foreign_keys, scripts>>

Next ==
    \/ Start
    \/ EnsureDataFolder
    \/ Connect
    \/ ExecuteSqlFile
    \/ LogCompleted
    \/ HandleException
    \/ Finally
    \/ RunAgain

Spec == Init /\ [][Next]_vars

\* ---- helpers for the properties ----
Logged(msg, arg) == \E i \in 1..Len(log) : log[i].msg = msg /\ log[i].arg = arg
CountLogged(msg) == Cardinality({i \in 1..Len(log) : log[i].msg = msg})
RunEnded == pc \in {"done", "raised"}
IsPrefix(s, t) == Len(s) <= Len(t) /\ \A i \in 1..Len(s) : s[i] = t[i]
CallFiles == [i \in 1..Len(calls) |-> calls[i].file]
AllOk(n) == \A i \in 1..n : i <= Len(calls) /\ calls[i].ok
SeedRows(t) == {RowOf(s) : s \in {x \in {scripts[InsertFile].stmts[i] :
                   i \in 1..Len(scripts[InsertFile].stmts)} : x.op = "insert" /\ x.t = t}}
SeedDb == [authors |-> TableWith(SeedRows("authors")), books |-> TableWith(SeedRows("books"))]
\* tables whose CREATE statement precedes the first rejected statement
RECURSIVE CreatedBeforeFailure(_)
CreatedBeforeFailure(stmts) ==
    IF stmts = <<>> \/ Head(stmts).op # "create" THEN {}
    ELSE {Head(stmts).t} \cup CreatedBeforeFailure(Tail(stmts))

\* C1: the scripts are attempted in the order drop, create, insert; a script is
\* attempted only after every earlier one succeeded; and every execution
\* happens while the single connection of the run is open.
C1_FixedOrder ==
    /\ [](/\ IsPrefix(CallFiles, <<"01_drop_tables.sql", "02_create_tables.sql",
                                   "03_insert_records.sql">>)
          /\ AllOk(Len(calls) - 1)
          /\ (Len(calls) > 0 => opens = 1)
          /\ (pc = "exec" => connOpen /\ closes = 0))
    /\ [][calls' # calls /\ pc # "done" /\ pc # "raised" => connOpen /\ connOpen' /\ closes' = 0]_vars
C1_Witness ==
    /\ pc = "done" /\ Len(calls) = 3 /\ AllOk(3) /\ closes = 1

\* C2: after a failed execute_sql_file call the failure reaches main's handler,
\* no later script is attempted, no script is attempted twice, and the
\* connection is closed when the run ends.
C2_FailureIsTerminal ==
    /\ \A i \in 1..Len(calls) : ~calls[i].ok => i = Len(calls)
    /\ \A i, j \in 1..Len(calls) : calls[i].file = calls[j].file => i = j
    /\ (\E i \in 1..Len(calls) : ~calls[i].ok) =>
          /\ pc \in {"except", "finally", "done"}
          /\ pc \in {"finally", "done"} => Logged("Error during database setup", NULL)
          /\ pc = "done" => ~connOpen /\ closes = 1
          /\ pc # "raised"
C2_Witness ==
    /\ pc = "done" /\ Len(calls) = 1 /\ ~calls[1].ok /\ ~scripts[DropFile].present
    /\ closes = 1

\* C3: a run that opened the connection opened it once, and when the run ends
\* it has closed it exactly once, whichever script failed or none.
C3_OpenedOnceClosedOnce ==
    /\ opens <= 1
    /\ closes <= opens
    /\ (connOpen <=> opens = 1 /\ closes = 0)
    /\ (opens = 1 /\ pc # "connect" => pc \in {"exec", "completed", "except", "finally", "done"})
    /\ (opens = 1 /\ RunEnded => closes = 1 /\ ~connOpen /\ pc = "done")
C3_Witness ==
    /\ pc = "done" /\ opens = 1 /\ closes = 1 /\ Len(calls) = 2 /\ ~calls[2].ok

\* C4: the cleanup in the finally block completes without raising, wherever the
\* error came from inside the try block, the connect call included.
C4_CleanupNeverRaises ==
    raisedAt # "finally"

\* C5: an execute_sql_file call logs either the success line or the error line
\* for its file, never both.
C5_ExactlyOneOutcomeLogged ==
    \A i \in 1..Len(calls) :
        ~(Logged("Executed", calls[i].file) /\ Logged("Failed to execute", calls[i].file))

\* C6: a successful run ends with both tables present and holding the seed
\* rows whatever the database held before, and a second successful run ends in
\* the state the first one ended in.
C6_Idempotent ==
    (pc = "done" /\ Completed) =>
        /\ db = SeedDb
        /\ (prev.ran /\ prev.completed => db = prev.db)
C6_Witness ==
    /\ pc = "done" /\ Completed /\ run = 2 /\ prev.completed
    /\ db.authors.rows # {}

\* C7: after a successful run the tables hold the seed rows and every non-null
\* books.author_id is the author_id of a row of authors.
C7_SeedRowsAndReferences ==
    (pc = "done" /\ Completed) =>
        /\ db.authors.exists /\ db.authors.rows = SeedRows("authors")
        /\ db.books.exists /\ db.books.rows = SeedRows("books")
        /\ \A b \in db.books.rows :
              b.author_id # NULL => b.author_id \in Keys(db.authors, "authors")

C9_EnsureDataFolder ==
    /\ [](/\ (opens > 0 \/ pc \in {"connect", "exec"} => dataDir = "dir")
          /\ (raisedAt = "mkdir" =>
                pc = "raised" /\ opens = 0 /\ calls = <<>> /\ dataDir # "dir"
                  /\ ~Logged("Error during database setup", NULL)))
    /\ [][pc = "mkdir" /\ pc' # "mkdir" =>
            /\ db' = db
            /\ (dataDir = "dir" => pc' = "connect" /\ dataDir' = "dir")
            /\ (dataDir = "absent" =>
                  \/ pc' = "connect" /\ dataDir' = "dir"
                  \/ pc' = "raised" /\ dataDir' = "absent")
            /\ (dataDir = "file" => pc' = "raised" /\ dataDir' = "file")]_vars
C9_Witness ==
    /\ pc = "raised" /\ raisedAt = "mkdir" /\ dataDir = "file"

\* C10: the completion line is logged exactly when all three calls returned
\* normally; when a step of the try block fails the handler's line is logged,
\* the completion line is not, and main returns normally.
C10_CompletionIffAllOk ==
    /\ (RunEnded /\ raisedAt # "mkdir") =>
          /\ Completed <=> AllOk(3)
          /\ ~Completed => Logged("Error during database setup", NULL) /\ pc = "done"
    /\ ~(Completed /\ Logged("Error during database setup", NULL))

====
